---- MODULE Spec2Model ----
(***************************************************************************)
(* Model of clwg/dns-network-scanner (src/main.go).                        *)
(*                                                                         *)
(* main parses the CIDR argument, walks the block with a byte-wise         *)
(* increment, and starts one goroutine per address behind a counting       *)
(* semaphore (a buffered channel) and a sync.WaitGroup.  Each goroutine    *)
(* runs queryDNS: one query for the primary domain, one insert, then one   *)
(* query and insert per additional domain.                                 *)
(*                                                                         *)
(* Addresses are sequences of bytes (net.IP).  Texts (domain names, flag   *)
(* values, ip.String()) are sequences of one-character strings, so that    *)
(* strings.Split, dns.Fqdn and the dotted-decimal form are computed.       *)
(* time.Now() is left out of the rows: no claim reads the timestamp.       *)
(***************************************************************************)
EXTENDS Integers, Sequences, FiniteSets, Bags, TLC

VARIABLES
    flags,       \* the parsed command line: network, domain, domains, goroutines
    pc,          \* position of main
    ip,          \* the loop variable of main.go:69 (mutated in place by inc)
    ipnet,       \* the *net.IPNet returned by net.ParseCIDR
    currentIP,   \* the copy made at main.go:70-71
    semaphore,   \* number of tokens in the buffered channel
    wg,          \* counter of the sync.WaitGroup
    tasks,       \* the goroutines started so far, in dispatch order
    db,          \* the rows of dns_queries, a bag
    enum         \* history: summary of the addresses the loop has yielded

vars == <<flags, pc, ip, ipnet, currentIP, semaphore, wg, tasks, db, enum>>

(***************************************************************************)
(* Bounds of the model.                                                    *)
(***************************************************************************)
MaxGoroutines == 2     \* -goroutines ranges over 0..MaxGoroutines
MaxQueries == 8        \* a scan sends at most MaxQueries queries
MaxAddrLen == 2        \* addresses have 1..MaxAddrLen bytes (4 or 16 in Go)
MaxHostBits == 10      \* blocks of the enumeration have at most 2^MaxHostBits addresses
MaxYield == 2000       \* the yield counter of the history saturates here

(***************************************************************************)
(* Program constants.                                                      *)
(***************************************************************************)
ByteMax == 255         \* inc: "if ip[j] < 255"

Nil == "nil"
Sep == ","
Dot == "."

(***************************************************************************)
(* Byte and address arithmetic (net.IP, net.IPMask, net.IPNet).            *)
(***************************************************************************)
Min(a, b) == IF a < b THEN a ELSE b
Max(a, b) == IF a > b THEN a ELSE b

RECURSIVE Pow2(_)
Pow2(n) == IF n = 0 THEN 1 ELSE 2 * Pow2(n - 1)

RECURSIVE BitAnd(_, _)
BitAnd(a, b) ==
    IF a = 0 \/ b = 0 THEN 0
    ELSE (a % 2) * (b % 2) + 2 * BitAnd(a \div 2, b \div 2)

\* One byte of net.CIDRMask: the top n bits set, 0 <= n <= 8.
MaskByte(n) == (ByteMax + 1) - Pow2(8 - n)

\* net.CIDRMask(ones, 8*len).
CIDRMask(ones, len) ==
    [i \in 1..len |-> MaskByte(Max(0, Min(8, ones - 8 * (i - 1))))]

\* net.IP.Mask: byte-wise and.
Mask(a, m) == [i \in 1..Len(a) |-> BitAnd(a[i], m[i])]

\* net.IPNet.Contains.
Contains(n, a) ==
    /\ Len(a) = Len(n.IP)
    /\ \A i \in 1..Len(a) : BitAnd(n.IP[i], n.Mask[i]) = BitAnd(a[i], n.Mask[i])

RECURSIVE IncFrom(_, _)
IncFrom(a, j) ==
    IF j = 0 THEN a
    ELSE IF a[j] < ByteMax THEN [a EXCEPT ![j] = @ + 1]
    ELSE IncFrom([a EXCEPT ![j] = 0], j - 1)

\* inc that steps by two.
incTwice(a) == IncFrom(IncFrom(a, Len(a)), Len(a))

\* func inc(ip net.IP): the value of the slice after the call.
inc(a) == IncFrom(a, Len(a))

\* The address as a number, big-endian (used by the properties only).
RECURSIVE IPValue(_)
IPValue(a) ==
    IF a = <<>> THEN 0
    ELSE (ByteMax + 1) * IPValue(SubSeq(a, 1, Len(a) - 1)) + a[Len(a)]

(***************************************************************************)
(* Texts.                                                                  *)
(***************************************************************************)
DigitChar == <<"0", "1", "2", "3", "4", "5", "6", "7", "8", "9">>

RECURSIVE Decimal(_)
Decimal(n) ==
    IF n < 10 THEN <<DigitChar[n + 1]>>
    ELSE Decimal(n \div 10) \o <<DigitChar[(n % 10) + 1]>>

\* net.IP.String(): the bytes in decimal, joined by dots.
RECURSIVE IPString(_)
IPString(a) ==
    IF Len(a) = 0 THEN <<>>
    ELSE IF Len(a) = 1 THEN Decimal(a[1])
    ELSE IPString(SubSeq(a, 1, Len(a) - 1)) \o <<Dot>> \o Decimal(a[Len(a)])

\* strings.Split(s, sep) for a one-character separator.
RECURSIVE Split(_, _)
Split(s, sep) ==
    IF s = <<>> THEN << <<>> >>
    ELSE IF Head(s) = sep THEN << <<>> >> \o Split(Tail(s), sep)
    ELSE LET r == Split(Tail(s), sep)
         IN  << <<Head(s)>> \o Head(r) >> \o Tail(r)

\* dns.Fqdn: a trailing dot is added when missing.
Fqdn(s) == IF Len(s) > 0 /\ s[Len(s)] = Dot THEN s ELSE s \o <<Dot>>

\* ipcipher.EncodeIPAddress: one label, a function of the address alone.
EncodeIPAddress(a) == << [token |-> a] >>

\* dnsQuestionToString of the question SetQuestion built for name.
dnsQuestionToString(name) == Fqdn(name) \o <<" ", "A">>

(***************************************************************************)
(* The inputs: the command line.                                           *)
(***************************************************************************)
\* -network values that net.ParseCIDR accepts, as (address, prefix length),
\* and one that it rejects.  Blocks of 1, 2 and 4 addresses; with and
\* without host bits set; at the top of the address space; ending on a
\* byte carry.
BadNetwork == [valid |-> FALSE, ip |-> <<>>, ones |-> 0]
Networks ==
    { [valid |-> TRUE, ip |-> <<7>>, ones |-> 8],
      [valid |-> TRUE, ip |-> <<255>>, ones |-> 7],
      [valid |-> TRUE, ip |-> <<253>>, ones |-> 6],
      [valid |-> TRUE, ip |-> <<3, 255>>, ones |-> 15],
      BadNetwork }

\* -domain, and the -domains values: none, one, two, and one name twice.
PrimaryDomain == <<"p">>
DomainsFlags ==
    { <<>>, <<"a">>, <<"a", Sep, "b">>, <<"a", Sep, "a">> }

Goroutines == 0..MaxGoroutines

\* Number of addresses of the block of a -network value.
BlockSize(n) == Pow2(8 * Len(n.ip) - n.ones)

\* The command lines of the scans: every combination whose scan sends at
\* most MaxQueries queries.
Flags ==
    { f \in [network : Networks, domain : {PrimaryDomain},
             domains : DomainsFlags, goroutines : Goroutines] :
        BlockSize(f.network) *
          (1 + (IF f.domains = <<>> THEN 0 ELSE Len(Split(f.domains, Sep))))
            <= MaxQueries }

\* The -network values of the enumeration: every prefix length over a
\* choice of bytes, blocks of at most 2^MaxHostBits addresses.
ByteChoices == {0, 1, 128, 254, 255}
EnumNetworks ==
    UNION { { [valid |-> TRUE, ip |-> a, ones |-> o] :
                a \in [1..l -> ByteChoices],
                o \in Max(0, 8 * l - MaxHostBits)..(8 * l) } :
            l \in 1..MaxAddrLen }
EnumFlags ==
    [network : EnumNetworks, domain : {PrimaryDomain},
     domains : {<<>>}, goroutines : {1}]

\* What client.Exchange may give: a response with its answer section, or
\* an error (timeout or transport error).
Answers == { <<"r", "r">> }
NoReply == [ok |-> FALSE, answer |-> <<>>]
Replies == [ok : {TRUE}, answer : Answers] \cup {NoReply}

(***************************************************************************)
(* The functions of main.go.                                               *)
(***************************************************************************)
\* A parse whose error is dropped.
ParseCIDRNoError(n) ==
    [err |-> FALSE,
     ip |-> n.ip,
     ipnet |-> [IP |-> Mask(n.ip, CIDRMask(n.ones, Len(n.ip))),
                Mask |-> CIDRMask(n.ones, Len(n.ip))]]

\* net.ParseCIDR: the address as written and the masked network.
ParseCIDR(n) ==
    [err |-> ~n.valid,
     ip |-> n.ip,
     ipnet |-> [IP |-> Mask(n.ip, CIDRMask(n.ones, Len(n.ip))),
                Mask |-> CIDRMask(n.ones, Len(n.ip))]]

\* A query sent to one fixed resolver instead of the scanned host.
performDNSQueryFixedResolver(fqdn, a, reply) ==
    [err |-> ~reply.ok,
     server |-> <<"8", ".", "8", ".", "8", ".", "8", ":", "5", "3">>,
     name |-> Fqdn(fqdn),
     query |-> IF reply.ok THEN dnsQuestionToString(fqdn) ELSE <<>>,
     answer |-> IF reply.ok THEN reply.answer ELSE <<>>]

\* performDNSQuery: the question is sent to ip.String():53.
performDNSQuery(fqdn, a, reply) ==
    [err |-> ~reply.ok,
     server |-> IPString(a) \o <<":", "5", "3">>,
     name |-> Fqdn(fqdn),
     query |-> IF reply.ok THEN dnsQuestionToString(fqdn) ELSE <<>>,
     answer |-> IF reply.ok THEN reply.answer ELSE <<>>]

\* An insert that replaces the rows equal to the new one.
insertIntoDBReplace(rows, iptext, dom, query, answer, fails) ==
    LET row == [ip |-> iptext, domain |-> dom, query |-> query, answer |-> answer]
    IN  IF fails THEN rows
        ELSE [r \in (DOMAIN rows) \cup {row} |-> IF r = row THEN 1 ELSE rows[r]]

\* insertIntoDB: one row more on success, nothing on failure.
insertIntoDB(rows, iptext, dom, query, answer, fails) ==
    IF fails THEN rows
    ELSE rows (+) SetToBag({[ip |-> iptext, domain |-> dom,
                             query |-> query, answer |-> answer]})

\* The list of -domains walked from its last entry to its first.
RECURSIVE Reverse(_)
Reverse(q) == IF q = <<>> THEN <<>> ELSE Reverse(Tail(q)) \o <<Head(q)>>
AdditionalDomainsReversed(f) ==
    IF f.domains # <<>> THEN Reverse(Split(f.domains, Sep)) ELSE <<>>

\* The additional domains queryDNS ranges over (main.go:116-117).
AdditionalDomains(f) ==
    IF f.domains # <<>> THEN Split(f.domains, Sep) ELSE <<>>

(***************************************************************************)
(* Initial state: the flags are parsed, the dictionary, the database and   *)
(* the client are built (main.go:39-58).                                   *)
(***************************************************************************)
EnumInit == [n |-> 0, first |-> Nil, last |-> Nil, ascending |-> TRUE]

Start ==
    /\ pc = "parse"
    /\ ip = <<>>
    /\ ipnet = Nil
    /\ currentIP = <<>>
    /\ semaphore = 0
    /\ wg = 0
    /\ tasks = <<>>
    /\ db = EmptyBag
    /\ enum = EnumInit

Init == flags \in Flags /\ Start

\* The history of the loop: how many addresses it has yielded, the first,
\* the last, and whether each one was the previous plus one.
Yield(e, a) ==
    [n |-> Min(e.n + 1, MaxYield),
     first |-> IF e.n = 0 THEN a ELSE e.first,
     last |-> a,
     ascending |-> e.ascending /\ (e.n > 0 => IPValue(a) = IPValue(e.last) + 1)]

(***************************************************************************)
(* main.                                                                   *)
(***************************************************************************)
\* main.go:60-69: ParseCIDR, log.Fatalf on error, else the loop's init.
ParseArgs ==
    /\ pc = "parse"
    /\ LET r == ParseCIDR(flags.network)
       IN  IF r.err
           THEN /\ pc' = "fatal"
                /\ UNCHANGED <<ip, ipnet>>
           ELSE /\ pc' = "loop"
                /\ ipnet' = r.ipnet
                /\ ip' = Mask(r.ip, r.ipnet.Mask)
    /\ UNCHANGED <<flags, currentIP, semaphore, wg, tasks, db, enum>>

\* A loop that ends when a task has met an error.
LoopTestStopOnError ==
    /\ pc = "loop"
    /\ IF /\ Contains(ipnet, ip)
          /\ \A t \in 1..Len(tasks) : \A i \in 1..Len(tasks[t].log) :
                tasks[t].log[i].q = "ok" /\ tasks[t].log[i].ins # "err"
       THEN /\ currentIP' = ip
            /\ enum' = Yield(enum, ip)
            /\ pc' = "acquire"
       ELSE /\ pc' = "wait"
            /\ UNCHANGED <<currentIP, enum>>
    /\ UNCHANGED <<flags, ip, ipnet, semaphore, wg, tasks, db>>

\* main.go:69-71: the loop condition and the copy of the address.
LoopTest ==
    /\ pc = "loop"
    /\ IF Contains(ipnet, ip)
       THEN /\ currentIP' = ip
            /\ enum' = Yield(enum, ip)
            /\ pc' = "acquire"
       ELSE /\ pc' = "wait"
            /\ UNCHANGED <<currentIP, enum>>
    /\ UNCHANGED <<flags, ip, ipnet, semaphore, wg, tasks, db>>

\* Acquire with a send that never blocks.
AcquireUnbounded ==
    /\ pc = "acquire"
    /\ semaphore' = semaphore + 1
    /\ pc' = "add"
    /\ UNCHANGED <<flags, ip, ipnet, currentIP, wg, tasks, db, enum>>

\* main.go:74: the send blocks while the channel is full.
Acquire ==
    /\ pc = "acquire"
    /\ semaphore < flags.goroutines
    /\ semaphore' = semaphore + 1
    /\ pc' = "add"
    /\ UNCHANGED <<flags, ip, ipnet, currentIP, wg, tasks, db, enum>>

\* main.go:76.
WgAdd ==
    /\ pc = "add"
    /\ wg' = wg + 1
    /\ pc' = "go"
    /\ UNCHANGED <<flags, ip, ipnet, currentIP, semaphore, tasks, db, enum>>

\* A goroutine: its parameter ip, its position, the index of the range
\* loop, the results of the last performDNSQuery, and as history the
\* attempts it has made and the number of tokens it has given back.
NewTask(a) ==
    [ip |-> a, pc |-> "query", k |-> 0, res |-> Nil, log |-> <<>>, rel |-> 0]

\* main.go:77-84 and the post statement inc(ip) of main.go:69.
Go ==
    /\ pc = "go"
    /\ tasks' = Append(tasks, NewTask(currentIP))
    /\ ip' = inc(ip)
    /\ pc' = "loop"
    /\ UNCHANGED <<flags, ipnet, currentIP, semaphore, wg, db, enum>>

\* Wait that does not wait.
WaitNoBarrier ==
    /\ pc = "wait"
    /\ pc' = "exit"
    /\ UNCHANGED <<flags, ip, ipnet, currentIP, semaphore, wg, tasks, db, enum>>

\* main.go:86: wg.Wait returns when the counter is zero; main returns.
Wait ==
    /\ pc = "wait"
    /\ wg = 0
    /\ pc' = "exit"
    /\ UNCHANGED <<flags, ip, ipnet, currentIP, semaphore, wg, tasks, db, enum>>

(***************************************************************************)
(* The goroutine of main.go:77-84, running queryDNS.                       *)
(***************************************************************************)
Attempt(dom, r) ==
    [domain |-> dom, name |-> r.name, server |-> r.server,
     q |-> IF r.err THEN "err" ELSE "ok", ins |-> "none"]

Stored(log, ok) ==
    [log EXCEPT ![Len(log)].ins = IF ok THEN "ok" ELSE "err"]

\* Where queryDNS goes after the attempt for additional domain number k:
\* the next turn of the range loop, or return nil (main.go:117-124).
AfterAdditional(k) ==
    IF k < Len(AdditionalDomains(flags)) THEN "addquery" ELSE "release"

\* queryDNS returning at the first error of an additional domain.
AfterAdditionalErrorAbort(k) == "release"

\* Where queryDNS goes when queryAdditionalDNS returns an error
\* (main.go:118-120): the error is logged and the loop goes on.
AfterAdditionalError(k) == AfterAdditional(k)

\* queryDNS going on to the insert with the error unchecked.
AfterPrimaryQueryErrorIgnored == "insert"

\* An error path that skips the receive of main.go:83.
AfterPrimaryInsertErrorNoRelease == "done"

\* Where queryDNS goes when the primary query fails (main.go:108-110).
AfterPrimaryQueryError == "release"

\* Where queryDNS goes when the primary insert fails (main.go:112-114).
AfterPrimaryInsertError == "release"

\* queryDNS returning after the primary insert.
AfterPrimarySkip == "release"

\* Where queryDNS goes after the primary insert (main.go:116-124).
AfterPrimary == AfterAdditional(0)

\* The goroutine reading the loop variable of main instead of its copy.
TaskIPShared(t) == ip

\* The address goroutine t reads: its parameter, the slice made and filled
\* at main.go:70-71, which nothing writes afterwards.
TaskIP(t) == tasks[t].ip

\* main.go:104-110.
PrimaryQuery(t) ==
    /\ tasks[t].pc = "query"
    /\ \E reply \in Replies :
         LET subdomain == EncodeIPAddress(TaskIP(t))
             fqdn == subdomain \o <<Dot>> \o flags.domain
             r == performDNSQuery(fqdn, TaskIP(t), reply)
         IN  tasks' = [tasks EXCEPT
                 ![t].log = Append(@, Attempt(flags.domain, r)),
                 ![t].res = r,
                 ![t].pc = IF r.err THEN AfterPrimaryQueryError ELSE "insert"]
    /\ UNCHANGED <<flags, pc, ip, ipnet, currentIP, semaphore, wg, db, enum>>

\* main.go:112-116.
PrimaryInsert(t) ==
    /\ tasks[t].pc = "insert"
    /\ \E fails \in BOOLEAN :
         /\ db' = insertIntoDB(db, IPString(TaskIP(t)), flags.domain,
                               tasks[t].res.query, tasks[t].res.answer, fails)
         /\ tasks' = [tasks EXCEPT
                 ![t].log = Stored(@, ~fails),
                 ![t].res = Nil,
                 ![t].pc = IF fails THEN AfterPrimaryInsertError ELSE AfterPrimary]
    /\ UNCHANGED <<flags, pc, ip, ipnet, currentIP, semaphore, wg, enum>>

\* main.go:117-118 and 158-161: the query of queryAdditionalDNS.
AdditionalQuery(t) ==
    /\ tasks[t].pc = "addquery"
    /\ \E reply \in Replies :
         LET k == tasks[t].k + 1
             additionalDomain == AdditionalDomains(flags)[k]
             r == performDNSQuery(additionalDomain, TaskIP(t), reply)
         IN  tasks' = [tasks EXCEPT
                 ![t].k = k,
                 ![t].log = Append(@, Attempt(additionalDomain, r)),
                 ![t].res = r,
                 ![t].pc = IF r.err THEN AfterAdditionalError(k) ELSE "addinsert"]
    /\ UNCHANGED <<flags, pc, ip, ipnet, currentIP, semaphore, wg, db, enum>>

\* main.go:163 and 118-120: the insert of queryAdditionalDNS.
AdditionalInsert(t) ==
    /\ tasks[t].pc = "addinsert"
    /\ \E fails \in BOOLEAN :
         /\ db' = insertIntoDB(db, IPString(TaskIP(t)),
                               AdditionalDomains(flags)[tasks[t].k],
                               tasks[t].res.query, tasks[t].res.answer, fails)
         /\ tasks' = [tasks EXCEPT
                 ![t].log = Stored(@, ~fails),
                 ![t].res = Nil,
                 ![t].pc = IF fails THEN AfterAdditionalError(tasks[t].k)
                           ELSE AfterAdditional(tasks[t].k)]
    /\ UNCHANGED <<flags, pc, ip, ipnet, currentIP, semaphore, wg, enum>>

\* main.go:83: the receive that gives the token back.
Release(t) ==
    /\ tasks[t].pc = "release"
    /\ semaphore > 0
    /\ semaphore' = semaphore - 1
    /\ tasks' = [tasks EXCEPT ![t].pc = "done", ![t].rel = @ + 1]
    /\ UNCHANGED <<flags, pc, ip, ipnet, currentIP, wg, db, enum>>

\* main.go:78: the deferred wg.Done.
Done(t) ==
    /\ tasks[t].pc = "done"
    /\ wg' = wg - 1
    /\ tasks' = [tasks EXCEPT ![t].pc = "finished"]
    /\ UNCHANGED <<flags, pc, ip, ipnet, currentIP, semaphore, db, enum>>

Next ==
    \/ ParseArgs
    \/ LoopTest
    \/ Acquire
    \/ WgAdd
    \/ Go
    \/ Wait
    \/ \E t \in 1..Len(tasks) : PrimaryQuery(t)
    \/ \E t \in 1..Len(tasks) : PrimaryInsert(t)
    \/ \E t \in 1..Len(tasks) : AdditionalQuery(t)
    \/ \E t \in 1..Len(tasks) : AdditionalInsert(t)
    \/ \E t \in 1..Len(tasks) : Release(t)
    \/ \E t \in 1..Len(tasks) : Done(t)

Spec == Init /\ [][Next]_vars

(***************************************************************************)
(* The enumeration alone: the for statement of main.go:69 with its body    *)
(* reduced to the record of the address it is entered with.                *)
(***************************************************************************)
InitEnum == flags \in EnumFlags /\ Start

\* main.go:69: one turn of the loop, or its end.
EnumStep ==
    /\ pc = "loop"
    /\ IF Contains(ipnet, ip)
       THEN /\ enum' = Yield(enum, ip)
            /\ ip' = inc(ip)
            /\ pc' = "loop"
       ELSE /\ pc' = "wait"
            /\ UNCHANGED <<ip, enum>>
    /\ UNCHANGED <<flags, ipnet, currentIP, semaphore, wg, tasks, db>>

NextEnum ==
    \/ ParseArgs
    \/ EnumStep
    \/ Wait

SpecEnum == InitEnum /\ [][NextEnum]_vars

(***************************************************************************)
(* Scheduling: the Go scheduler runs a goroutine that can take a step, and *)
(* every call of the model returns; no step that stays possible is put off *)
(* forever.                                                                *)
(***************************************************************************)
FairSpec == Spec /\ WF_vars(Next)
FairSpecEnum == SpecEnum /\ WF_vars(NextEnum)

(***************************************************************************)
(* Vocabulary of the properties.                                           *)
(***************************************************************************)
TaskIds == 1..Len(tasks)
K == Len(AdditionalDomains(flags))

\* queryDNS is running in task t / has returned in task t.
InQueryDNS(t) == tasks[t].pc \in {"query", "insert", "addquery", "addinsert"}
Returned(t) == tasks[t].pc \in {"release", "done", "finished"}

\* Task t holds a token of the semaphore.
HoldsSlot(t) == InQueryDNS(t) \/ tasks[t].pc = "release"

\* The block of the -network value, computed on numbers: its first value
\* and the set of its values.
BlockBase(n) == IPValue(n.ip) - (IPValue(n.ip) % BlockSize(n))
BlockValues(n) == BlockBase(n)..(BlockBase(n) + BlockSize(n) - 1)

\* Number of rows of the sink for an address text and a domain.
Rows(iptext, dom) ==
    LET S == { r \in BagToSet(db) : r.ip = iptext /\ r.domain = dom }
        RECURSIVE Sum(_)
        Sum(T) == IF T = {} THEN 0
                  ELSE LET r == CHOOSE x \in T : TRUE
                       IN  CopiesIn(r, db) + Sum(T \ {r})
    IN  Sum(S)

(***************************************************************************)
(* C1: at most N queryDNS invocations are in flight; every one of them,    *)
(* and the dispatch that has acquired but not yet started its task, holds  *)
(* one of the at most N tokens, so that the loop cannot acquire a token    *)
(* while N are held.                                                       *)
(***************************************************************************)
C1_ConcurrencyBound ==
    /\ Cardinality({t \in TaskIds : InQueryDNS(t)}) <= flags.goroutines
    /\ semaphore <= flags.goroutines
    /\ semaphore = Cardinality({t \in TaskIds : HoldsSlot(t)})
                     + (IF pc \in {"add", "go"} THEN 1 ELSE 0)

\* N = 2 tasks in flight, the loop stopped at the acquisition of a third.
C1_Witness ==
    /\ flags.goroutines = 2
    /\ BlockSize(flags.network) = 4
    /\ pc = "acquire"
    /\ Cardinality({t \in TaskIds : InQueryDNS(t)}) = 2
    /\ ~ENABLED Acquire

(***************************************************************************)
(* C2: when the scan has completed, every address of the block has been    *)
(* handed to exactly one task and every task has an address of the block.  *)
(***************************************************************************)
C2_DispatchedOnce ==
    pc = "exit" =>
        /\ \A v \in BlockValues(flags.network) :
              Cardinality({t \in TaskIds : IPValue(tasks[t].ip) = v}) = 1
        /\ \A t \in TaskIds :
              /\ IPValue(tasks[t].ip) \in BlockValues(flags.network)
              /\ Len(tasks[t].ip) = Len(flags.network.ip)

\* A completed scan of a block of four addresses given with host bits set.
C2_Witness ==
    /\ pc = "exit"
    /\ BlockSize(flags.network) = 4
    /\ IPValue(flags.network.ip) # BlockBase(flags.network)
    /\ Len(tasks) = 4

(***************************************************************************)
(* C3: main returns only when every dispatched task has finished; the      *)
(* counter of the WaitGroup counts the tasks started and not finished,     *)
(* and the task that is about to be started.                               *)
(***************************************************************************)
C3_WaitsForAll ==
    /\ pc = "exit" => \A t \in TaskIds : tasks[t].pc = "finished"
    /\ wg = Cardinality({t \in TaskIds : tasks[t].pc # "finished"})
              + (IF pc = "go" THEN 1 ELSE 0)

\* A completed scan in which one task failed and another succeeded.
C3_Witness ==
    /\ pc = "exit"
    /\ \E t \in TaskIds : tasks[t].log[1].q = "err"
    /\ \E t \in TaskIds : tasks[t].log[1].ins = "ok"

(***************************************************************************)
(* Vocabulary of the properties about queryDNS.                            *)
(***************************************************************************)
\* The attempts of task t that follow the list of additional domains.
AttemptedAll(t) ==
    /\ Len(tasks[t].log) = 1 + K
    /\ \A i \in 1..K : tasks[t].log[i + 1].domain = AdditionalDomains(flags)[i]

\* Number of attempts of task t for domain dom that ended in a stored row.
Stores(t, dom) ==
    Cardinality({ i \in 1..Len(tasks[t].log) :
                    tasks[t].log[i].domain = dom /\ tasks[t].log[i].ins = "ok" })

\* The (task, attempt) pairs whose query for dom was answered by the host
\* of address text iptext.
Answered(iptext, dom) ==
    { x \in UNION { { <<t, i>> : i \in 1..Len(tasks[t].log) } : t \in TaskIds } :
        /\ IPString(tasks[x[1]].ip) = iptext
        /\ tasks[x[1]].log[x[2]].domain = dom
        /\ tasks[x[1]].log[x[2]].q = "ok" }

\* The domains a task queries, in order, and how often each is listed.
Queried == <<flags.domain>> \o AdditionalDomains(flags)
Occurrences(dom) == Cardinality({ i \in 1..Len(Queried) : Queried[i] = dom })

\* Every query and every insert made so far succeeded.
AllSucceeded ==
    \A t \in TaskIds : \A i \in 1..Len(tasks[t].log) :
        tasks[t].log[i].q = "ok" /\ tasks[t].log[i].ins = "ok"

\* The bytes of a number, big-endian.
RECURSIVE IPOfValue(_, _)
IPOfValue(v, len) ==
    IF len = 0 THEN <<>>
    ELSE IPOfValue(v \div (ByteMax + 1), len - 1) \o <<v % (ByteMax + 1)>>

BlockTexts ==
    { IPString(IPOfValue(v, Len(flags.network.ip))) : v \in BlockValues(flags.network) }

(***************************************************************************)
(* C4: a task whose primary query failed has, when queryDNS returns,       *)
(* attempted every additional domain.                                      *)
(***************************************************************************)
C4_ContinuesAfterPrimaryQueryError ==
    \A t \in TaskIds :
        (Returned(t) /\ tasks[t].log[1].q = "err") => AttemptedAll(t)

(***************************************************************************)
(* C5: in a task that has stored its primary record, the record stays in   *)
(* the sink, every stored additional record is in the sink, and when       *)
(* queryDNS returns every additional domain has been attempted, whatever   *)
(* the outcomes of the others.                                             *)
(***************************************************************************)
C5_AdditionalIsolated ==
    \A t \in TaskIds :
        (Len(tasks[t].log) >= 1 /\ tasks[t].log[1].ins = "ok") =>
            /\ \A i \in 1..Len(tasks[t].log) :
                  Rows(IPString(tasks[t].ip), tasks[t].log[i].domain)
                    >= Stores(t, tasks[t].log[i].domain)
            /\ Returned(t) => AttemptedAll(t)

\* Two additional domains: the query of the first failed, the second was
\* queried and stored, and the primary record is in the sink.
C5_Witness ==
    \E t \in TaskIds :
        /\ Returned(t)
        /\ Len(tasks[t].log) = 3
        /\ tasks[t].log[1].ins = "ok"
        /\ tasks[t].log[2].q = "err"
        /\ tasks[t].log[3].ins = "ok"
        /\ Rows(IPString(tasks[t].ip), flags.domain) = 1

(***************************************************************************)
(* C6: a task whose primary insert failed has, when queryDNS returns,      *)
(* attempted every additional domain; and a completed scan has run a task  *)
(* for every address, whatever inserts failed.                             *)
(***************************************************************************)
C6_ContinuesAfterPrimaryInsertError ==
    /\ \A t \in TaskIds :
          (Returned(t) /\ tasks[t].log[1].ins = "err") => AttemptedAll(t)
    /\ pc = "exit" => Len(tasks) = BlockSize(flags.network)

(***************************************************************************)
(* C7 as stated: when every query and insert succeeded, the completed scan *)
(* has stored M * (1 + K) rows, exactly one per (address, domain) pair.    *)
(***************************************************************************)
C7_OneRowPerPair ==
    (pc = "exit" /\ AllSucceeded) =>
        /\ BagCardinality(db) = BlockSize(flags.network) * (1 + K)
        /\ \A a \in BlockTexts : \A i \in 1..Len(Queried) : Rows(a, Queried[i]) = 1

(***************************************************************************)
(* C7 amended: when every query and insert succeeded, the completed scan   *)
(* has stored M * (1 + K) rows: for each address of the block and each     *)
(* domain, as many rows as the domain occurs among the primary domain and  *)
(* the K entries of the list, and no other row.                            *)
(***************************************************************************)
C7_RowPerQuery ==
    (pc = "exit" /\ AllSucceeded) =>
        /\ BagCardinality(db) = BlockSize(flags.network) * (1 + K)
        /\ \A a \in BlockTexts : \A i \in 1..Len(Queried) :
              Rows(a, Queried[i]) = Occurrences(Queried[i])
        /\ \A r \in BagToSet(db) :
              r.ip \in BlockTexts /\ Occurrences(r.domain) >= 1

\* The /30 of the spec: four addresses, one additional domain, eight rows.
C7_Witness ==
    /\ pc = "exit"
    /\ AllSucceeded
    /\ BlockSize(flags.network) = 4
    /\ K = 1
    /\ BagCardinality(db) = 8

(***************************************************************************)
(* C10 as stated: the sink holds rows for (address, domain) only if a      *)
(* query for the domain was answered by the address, and at most one row   *)
(* per pair.                                                               *)
(***************************************************************************)
C10_AtMostOneRow ==
    \A r \in BagToSet(db) :
        /\ Answered(r.ip, r.domain) # {}
        /\ Rows(r.ip, r.domain) <= 1

(***************************************************************************)
(* C10 amended: the sink holds at most as many rows for (address, domain)  *)
(* as queries for the domain were answered by the address; a query that    *)
(* fails adds nothing.                                                     *)
(***************************************************************************)
C10_RowsOnlyForAnswers ==
    \A r \in BagToSet(db) :
        /\ Answered(r.ip, r.domain) # {}
        /\ Rows(r.ip, r.domain) <= Cardinality(Answered(r.ip, r.domain))

\* A host answered the primary query and not the additional one: one row
\* for the first pair, none for the second.
C10_Witness ==
    \E t \in TaskIds :
        /\ Len(tasks[t].log) >= 2
        /\ tasks[t].log[1].ins = "ok"
        /\ tasks[t].log[2].q = "err"
        /\ Rows(IPString(tasks[t].ip), flags.domain) = 1
        /\ Rows(IPString(tasks[t].ip), tasks[t].log[2].domain) = 0

(***************************************************************************)
(* C8: the loop yields the masked network address first, then each time    *)
(* the previous address plus one, never more than 2^(w-p) addresses, and   *)
(* when it ends it has yielded exactly 2^(w-p), the last being the last    *)
(* address of the block.                                                   *)
(***************************************************************************)
C8_EnumeratesBlock ==
    /\ enum.ascending
    /\ enum.n <= BlockSize(flags.network)
    /\ enum.n >= 1 => IPValue(enum.first) = BlockBase(flags.network)
    /\ pc \in {"wait", "exit"} =>
          /\ enum.n = BlockSize(flags.network)
          /\ IPValue(enum.last) = BlockBase(flags.network) + BlockSize(flags.network) - 1

(***************************************************************************)
(* C9: once the loop has yielded the highest address of the address space  *)
(* it yields no further address.                                           *)
(***************************************************************************)
HighestYielded ==
    /\ enum.n >= 1
    /\ IPValue(enum.last) = Pow2(8 * Len(enum.last)) - 1

C9_StopsAtHighest == [][HighestYielded => enum' = enum]_vars

(***************************************************************************)
(* C11: the attempts of a task are made one after the other: the first is  *)
(* for the primary domain, attempt i + 1 is for entry i of the -domains     *)
(* list, and an attempt is made only when the one before is over, query    *)
(* and insert; the first additional attempt follows the stored primary     *)
(* record.                                                                 *)
(***************************************************************************)
ListedDomains == IF flags.domains = <<>> THEN <<>> ELSE Split(flags.domains, Sep)

\* Attempt i of task t is over: the query failed, or its insert returned.
Over(t, i) == tasks[t].log[i].q = "err" \/ tasks[t].log[i].ins # "none"

C11_Sequential ==
    \A t \in TaskIds :
        /\ Len(tasks[t].log) <= 1 + Len(ListedDomains)
        /\ Len(tasks[t].log) >= 1 => tasks[t].log[1].domain = flags.domain
        /\ \A i \in 2..Len(tasks[t].log) :
              tasks[t].log[i].domain = ListedDomains[i - 1]
        /\ \A i \in 1..(Len(tasks[t].log) - 1) : Over(t, i)
        /\ Len(tasks[t].log) >= 2 => tasks[t].log[1].ins = "ok"
        /\ tasks[t].pc \in {"query", "addquery"} =>
              \A i \in 1..Len(tasks[t].log) : Over(t, i)

\* Two tasks, two additional domains: the second task has made its three
\* attempts and finished while the first has not sent its first query.
C11_Witness ==
    /\ Len(tasks) = 2
    /\ tasks[1].pc = "query"
    /\ tasks[2].pc = "finished"
    /\ Len(tasks[2].log) = 3
    /\ tasks[2].log[2].domain # tasks[2].log[3].domain

(***************************************************************************)
(* C12: with a valid CIDR block and a limit N >= 1, under fair scheduling  *)
(* main eventually returns.                                                *)
(***************************************************************************)
C12_EventuallyCompletes ==
    (flags.network.valid /\ flags.goroutines >= 1) => <>(pc = "exit")

(***************************************************************************)
(* C13: every task makes exactly one primary-domain query, its first       *)
(* attempt, and a completed scan has made exactly one for every address of *)
(* the block, whatever the outcomes of the queries and inserts of the      *)
(* other tasks.                                                            *)
(***************************************************************************)
PrimaryName(a) == Fqdn(EncodeIPAddress(a) \o <<Dot>> \o flags.domain)

PrimaryAttempts(t) ==
    { i \in 1..Len(tasks[t].log) : tasks[t].log[i].name = PrimaryName(tasks[t].ip) }

C13_OnePrimaryQueryEach ==
    /\ \A t \in TaskIds :
          PrimaryAttempts(t) = IF tasks[t].pc = "query" THEN {} ELSE {1}
    /\ pc = "exit" =>
          \A v \in BlockValues(flags.network) :
              Cardinality({ t \in TaskIds : /\ IPValue(tasks[t].ip) = v
                                            /\ PrimaryAttempts(t) # {} }) = 1

\* A completed scan of four addresses: the first task's query failed, the
\* second task's insert failed, and the last task made its primary query.
C13_Witness ==
    /\ pc = "exit"
    /\ Len(tasks) = 4
    /\ tasks[1].log[1].q = "err"
    /\ tasks[2].log[1].ins = "err"
    /\ tasks[4].log[1].ins = "ok"

(***************************************************************************)
(* C14: when -network is not a valid CIDR string, main stops at            *)
(* log.Fatalf: the loop is never entered, no token is taken, no task is    *)
(* started, no query is sent and the sink gains no row.                    *)
(***************************************************************************)
C14_InvalidRangeAborts ==
    ~flags.network.valid =>
        /\ pc \in {"parse", "fatal"}
        /\ semaphore = 0
        /\ wg = 0
        /\ Len(tasks) = 0
        /\ BagCardinality(db) = 0
        /\ enum.n = 0

\* main has stopped on the parse error.
C14_Witness == ~flags.network.valid /\ pc = "fatal"

(***************************************************************************)
(* C15: every query of a task goes to the task's own address, port 53; the *)
(* primary query asks for Encode(ip) + "." + primaryDomain and its stored  *)
(* row, exactly one, has domain = primaryDomain; an additional domain d is *)
(* asked under the name d itself and stored with domain = d; every row of  *)
(* the sink has the text of the address and the domain of the query that   *)
(* produced it.  (Names are compared after dns.Fqdn, which ends them with  *)
(* a dot.)                                                                 *)
(***************************************************************************)
\* Number of rows of the sink with the given address text, domain and query.
RowsOf(iptext, dom, query) ==
    LET S == { r \in BagToSet(db) :
                 r.ip = iptext /\ r.domain = dom /\ r.query = query }
        RECURSIVE Sum(_)
        Sum(T) == IF T = {} THEN 0
                  ELSE LET r == CHOOSE x \in T : TRUE
                       IN  CopiesIn(r, db) + Sum(T \ {r})
    IN  Sum(S)

C15_RecordFields ==
    /\ \A t \in TaskIds : \A i \in 1..Len(tasks[t].log) :
          /\ tasks[t].log[i].server = IPString(tasks[t].ip) \o <<":", "5", "3">>
          /\ tasks[t].log[i].domain = Queried[i]
          /\ tasks[t].log[i].name =
                IF i = 1
                THEN Fqdn(EncodeIPAddress(tasks[t].ip) \o <<Dot>> \o flags.domain)
                ELSE Fqdn(ListedDomains[i - 1])
    /\ \A t \in TaskIds :
          (Len(tasks[t].log) >= 1 /\ tasks[t].log[1].ins = "ok") =>
              RowsOf(IPString(tasks[t].ip), flags.domain,
                     PrimaryName(tasks[t].ip) \o <<" ", "A">>) = 1
    /\ \A r \in BagToSet(db) :
          \E t \in TaskIds : \E i \in 1..Len(tasks[t].log) :
              /\ tasks[t].log[i].ins = "ok"
              /\ r.ip = IPString(tasks[t].ip)
              /\ r.domain = tasks[t].log[i].domain
              /\ r.query = tasks[t].log[i].name \o <<" ", "A">>

\* A task of a two-byte address that has stored its primary row and the
\* row of an additional domain.
C15_Witness ==
    \E t \in TaskIds :
        /\ Len(tasks[t].ip) = 2
        /\ Len(tasks[t].log) >= 2
        /\ tasks[t].log[1].ins = "ok"
        /\ tasks[t].log[2].ins = "ok"
        /\ RowsOf(IPString(tasks[t].ip), tasks[t].log[2].domain,
                  Fqdn(tasks[t].log[2].domain) \o <<" ", "A">>) >= 1

(***************************************************************************)
(* C16: a task gives its token back exactly once, whatever path queryDNS   *)
(* took, and before wg.Done; when main returns the semaphore is empty.     *)
(***************************************************************************)
C16_ReleasedOnce ==
    /\ \A t \in TaskIds :
          tasks[t].rel = IF tasks[t].pc \in {"done", "finished"} THEN 1 ELSE 0
    /\ pc = "exit" => semaphore = 0 /\ \A t \in TaskIds : tasks[t].rel = 1

\* A completed scan of four addresses under limit 1 in which the first
\* task's query failed, the second task's primary insert failed and the
\* third stored everything: the later addresses still got the slot.
C16_Witness ==
    /\ pc = "exit"
    /\ flags.goroutines = 1
    /\ Len(tasks) = 4
    /\ K = 1
    /\ tasks[1].log[1].q = "err"
    /\ tasks[2].log[1].ins = "err"
    /\ Len(tasks[3].log) = 2 /\ tasks[3].log[2].ins = "ok"
    /\ semaphore = 0

(***************************************************************************)
(* C17: task number t works on the address the loop had at its dispatch,   *)
(* the t-th address of the block, in every query name, resolver and stored *)
(* row, however far inc has moved the loop variable since; two tasks that  *)
(* have not finished never have the same address.                          *)
(***************************************************************************)
\* The address of the t-th turn of the loop, computed on numbers.
DispatchAddress(t) ==
    IPOfValue(BlockBase(flags.network) + (t - 1), Len(flags.network.ip))

C17_AddressFixedAtDispatch ==
    /\ \A t \in TaskIds :
          /\ tasks[t].ip = DispatchAddress(t)
          /\ \A i \in 1..Len(tasks[t].log) :
                /\ tasks[t].log[i].server =
                      IPString(DispatchAddress(t)) \o <<":", "5", "3">>
                /\ i = 1 => tasks[t].log[i].name =
                      Fqdn(EncodeIPAddress(DispatchAddress(t)) \o <<Dot>> \o flags.domain)
                /\ tasks[t].log[i].ins = "ok" =>
                      RowsOf(IPString(DispatchAddress(t)), tasks[t].log[i].domain,
                             tasks[t].log[i].name \o <<" ", "A">>) >= 1
    /\ \A t1, t2 \in TaskIds :
          (t1 # t2 /\ tasks[t1].pc # "finished" /\ tasks[t2].pc # "finished")
              => tasks[t1].ip # tasks[t2].ip

\* Two tasks are running, each has stored its primary row and has an
\* additional query to send, and the loop variable has moved past both.
C17_Witness ==
    /\ Len(tasks) >= 2
    /\ tasks[1].pc = "addquery" /\ tasks[1].log[1].ins = "ok"
    /\ tasks[2].pc = "addquery" /\ tasks[2].log[1].ins = "ok"
    /\ IPValue(ip) > IPValue(tasks[2].ip)
    /\ pc = "acquire"

(***************************************************************************)
(* The second run: the database file already holds the rows of a first run *)
(* of the same command line in which every query and insert succeeded      *)
(* (initializeDB opens the file and creates the table only if missing).    *)
(***************************************************************************)
\* The row a successful attempt number i stores for address a.
RowOfAttempt(f, a, i) ==
    LET q == <<f.domain>> \o AdditionalDomains(f)
        name == IF i = 1 THEN EncodeIPAddress(a) \o <<Dot>> \o f.domain ELSE q[i]
    IN  [ip |-> IPString(a), domain |-> q[i],
         query |-> dnsQuestionToString(name),
         answer |-> CHOOSE x \in Answers : TRUE]

FirstRunRows(f) ==
    LET attempts == { <<IPOfValue(v, Len(f.network.ip)), i>> :
                        v \in BlockValues(f.network),
                        i \in 1..(1 + Len(AdditionalDomains(f))) }
        rows == { RowOfAttempt(f, x[1], x[2]) : x \in attempts }
    IN  [r \in rows |->
            Cardinality({ x \in attempts : RowOfAttempt(f, x[1], x[2]) = r })]

\* Command lines of the second run: blocks of one and two addresses.
RerunFlags ==
    { f \in Flags : f.network.valid /\ f.goroutines >= 1 /\ BlockSize(f.network) <= 2 }

InitRerun ==
    /\ flags \in RerunFlags
    /\ pc = "parse"
    /\ ip = <<>>
    /\ ipnet = Nil
    /\ currentIP = <<>>
    /\ semaphore = 0
    /\ wg = 0
    /\ tasks = <<>>
    /\ db = FirstRunRows(flags)
    /\ enum = EnumInit

SpecRerun == InitRerun /\ [][Next]_vars

(***************************************************************************)
(* C18: no step takes a row out of the sink or changes one; the sink holds *)
(* the rows it started with and one row per insert that succeeded,         *)
(* whatever the interleaving; a second run in which everything succeeds    *)
(* leaves two copies of every row of the first.                            *)
(***************************************************************************)
\* Number of inserts that have succeeded in this run.
Inserted ==
    LET RECURSIVE Sum(_)
        Sum(t) == IF t = 0 THEN 0
                  ELSE Cardinality({ i \in 1..Len(tasks[t].log) :
                                       tasks[t].log[i].ins = "ok" }) + Sum(t - 1)
    IN  Sum(Len(tasks))

SinkKeeps ==
    LET first == FirstRunRows(flags)
    IN  /\ BagCardinality(db) = BagCardinality(first) + Inserted
        /\ \A r \in BagToSet(first) : CopiesIn(r, db) >= CopiesIn(r, first)
        /\ (pc = "exit" /\ AllSucceeded) =>
              \A r \in BagToSet(db) : CopiesIn(r, db) = 2 * CopiesIn(r, first)

SinkGrows == \A r \in BagToSet(db) : CopiesIn(r, db') >= CopiesIn(r, db)

C18_AppendOnly == []SinkKeeps /\ [][SinkGrows]_vars

\* The second run of a scan of two addresses with the list a,a has ended
\* with every insert succeeded: twelve rows, where the first run left six.
C18_Witness ==
    /\ pc = "exit"
    /\ AllSucceeded
    /\ Len(tasks) = 2
    /\ K = 2
    /\ BagCardinality(FirstRunRows(flags)) = 6
    /\ BagCardinality(db) = 12

(***************************************************************************)
(* C19: with a limit of 0 and a valid (hence non-empty) block, main gets   *)
(* to its first send on the semaphore, unvalidated, and stays there: no    *)
(* step is possible, no task was started, no query was sent, nothing was   *)
(* stored, and main never reaches wg.Wait nor its return.                  *)
(***************************************************************************)
C19_ZeroLimitBlocks ==
    (flags.goroutines = 0 /\ flags.network.valid) =>
        /\ pc \in {"parse", "loop", "acquire"}
        /\ pc = "loop" => Contains(ipnet, ip)
        /\ pc = "acquire" => ~ENABLED Next
        /\ tasks = <<>>
        /\ semaphore = 0
        /\ wg = 0
        /\ db = EmptyBag

\* main stands at the send for the first address of a two-address block.
C19_Witness ==
    /\ flags.goroutines = 0
    /\ BlockSize(flags.network) = 2
    /\ pc = "acquire"
    /\ currentIP = IPOfValue(BlockBase(flags.network), Len(flags.network.ip))
    /\ enum.n = 1
    /\ tasks = <<>>
    /\ ~ENABLED Acquire

====
